---- MODULE Spec2Model ----
(***************************************************************************)
(* NYC 311 analysis scripts: the rows of the "311_cleaned" table, the      *)
(* feature derivation of generate_dashboard.load_data and run_analysis,    *)
(* the dashboard statistics of generate_dashboard.generate_html, the       *)
(* database statistics of generate_report.get_stats / generate_report,     *)
(* the profiling input of run_analysis and generate_profile, the database  *)
(* setup of setup_database.create_database (the SQL file cut into chunks   *)
(* and run statement by statement) and the commands of main.py.            *)
(*                                                                         *)
(* A cell of a table or DataFrame is <<>> when it is NULL / None / NaN /   *)
(* NaT and <<v>> when it holds the value v.  A date text is the record of  *)
(* the seven fields the format '%m/%d/%Y %I:%M:%S %p' reads.  Durations    *)
(* and timestamps are whole seconds: response_time_hours holds the number  *)
(* of seconds, i.e. the number of hours times 3600 (the division by 3600   *)
(* of the source changes neither sign, zero nor order).  A mean or median  *)
(* is the exact fraction <<numerator, denominator>>.  Latitudes and        *)
(* longitudes are hundredths of a degree.  The image files of the charts   *)
(* are not among the files kept track of.                                  *)
(***************************************************************************)
EXTENDS Integers, Sequences, FiniteSets, TLC

VARIABLES
    table,      \* rows of "311_cleaned" in nyc311.db, in rowid order
    df,         \* generate_dashboard: the DataFrame load_data returned
    html,       \* generate_dashboard: the statistics generate_html computed
    adf,        \* run_analysis: the module-level DataFrame df after step 3
    report,     \* generate_report: get_stats' results and how generate_report ended
    summary,    \* setup_database: how the "Data Quality Summary" ended
    profile,    \* nyc311_profile.html: the script that wrote it and the frame it profiled
    files,      \* the files that exist in the working directory
    tables,     \* the tables nyc311.db holds (committed)
    script,     \* nyc311_sql_tasks.sql as the chunks split(';') cuts it into
    executed,   \* create_database: the chunks passed to cursor.execute, in order
    pc,         \* main.py: where the running command stands
    args,       \* main.py: the flags of the running or last command
    steps,      \* main.py: the run_* functions called by the command, in order
    result,     \* main.py: how the command ended
    before      \* main.py: the files and the database when the command started

dataVars == <<table, df, html, adf, report, summary, profile>>
diskVars == <<files, tables, script, executed>>
mainVars == <<pc, args, steps, result, before>>
vars == <<dataVars, diskVars, mainVars>>

\* setup_database: DB_PATH, CSV_PATH, SQL_FILE
DB_PATH  == "nyc311.db"
CSV_PATH == "311_Service_Requests_from_2010_to_Present.csv"
SQL_FILE == "nyc311_sql_tasks.sql"

----------------------------------------------------------------------------
(* Cells *)

NaN == <<>>
Some(v) == <<v>>
isna(c) == Len(c) = 0
notna(c) == Len(c) = 1

Column(frame, name) == [i \in 1..Len(frame) |-> frame[i][name]]
dropna(col) == SelectSeq(col, notna)

RECURSIVE SumSeq(_)
SumSeq(s) == IF s = <<>> THEN 0 ELSE s[1][1] + SumSeq(Tail(s))

----------------------------------------------------------------------------
(* Calendar arithmetic of pandas timestamps (proleptic Gregorian) *)

IsLeap(y) == (y % 4 = 0 /\ y % 100 # 0) \/ y % 400 = 0

DaysInMonth(y, m) ==
    IF m = 2 THEN (IF IsLeap(y) THEN 29 ELSE 28)
    ELSE IF m \in {4, 6, 9, 11} THEN 30 ELSE 31

\* days from 1970-01-01 to the civil date y-m-d
DaysFromCivil(y, m, d) ==
    LET yy  == IF m <= 2 THEN y - 1 ELSE y
        era == yy \div 400
        yoe == yy - era * 400
        mp  == (m + 9) % 12
        doy == (153 * mp + 2) \div 5 + d - 1
        doe == yoe * 365 + yoe \div 4 - yoe \div 100 + doy
    IN  era * 146097 + doe - 719468

\* the civil date of a day number
CivilFromDays(z) ==
    LET zz  == z + 719468
        era == zz \div 146097
        doe == zz - era * 146097
        yoe == (doe - doe \div 1460 + doe \div 36524 - doe \div 146096) \div 365
        doy == doe - (365 * yoe + yoe \div 4 - yoe \div 100)
        mp  == (5 * doy + 2) \div 153
        d   == doy - (153 * mp + 2) \div 5 + 1
        m   == IF mp < 10 THEN mp + 3 ELSE mp - 9
        y   == yoe + era * 400 + (IF m <= 2 THEN 1 ELSE 0)
    IN  [y |-> y, m |-> m, d |-> d]

\* %I with %p: the hour of the 12-hour clock as an hour of the day
Hour24(h, ap) ==
    IF ap = "AM" THEN (IF h = 12 THEN 0 ELSE h)
    ELSE (IF h = 12 THEN 12 ELSE h + 12)

\* does the text match '%m/%d/%Y %I:%M:%S %p' and name a representable instant
strptime_ok(t) ==
    /\ t.mo \in 1..12
    /\ t.y \in 1678..2261
    /\ t.d \in 1..DaysInMonth(t.y, t.mo)
    /\ t.h \in 1..12
    /\ t.mi \in 0..59
    /\ t.s \in 0..59
    /\ t.ap \in {"AM", "PM"}

\* a sentinel in place of NaT: the epoch
to_datetime_sentinel(cell) ==
    IF isna(cell) \/ ~strptime_ok(cell[1]) THEN Some(0)
    ELSE LET t == cell[1]
         IN  Some(DaysFromCivil(t.y, t.mo, t.d) * 86400
                  + Hour24(t.h, t.ap) * 3600 + t.mi * 60 + t.s)

\* pd.to_datetime(column, format='%m/%d/%Y %I:%M:%S %p', errors='coerce'), one cell
to_datetime(cell) ==
    IF isna(cell) THEN NaN
    ELSE LET t == cell[1]
         IN  IF ~strptime_ok(t) THEN NaN
             ELSE Some(DaysFromCivil(t.y, t.mo, t.d) * 86400
                       + Hour24(t.h, t.ap) * 3600 + t.mi * 60 + t.s)

\* NaT read as the epoch in the subtraction
total_seconds_fillna(closed, created) ==
    Some((IF isna(closed) THEN 0 ELSE closed[1])
         - (IF isna(created) THEN 0 ELSE created[1]))

\* (closed_date - created_date).dt.total_seconds(), one row
total_seconds(closed, created) ==
    IF isna(closed) \/ isna(created) THEN NaN
    ELSE Some(closed[1] - created[1])

\* the mask taken as <= 0
null_nonpositive(x) == IF notna(x) /\ x[1] <= 0 THEN NaN ELSE x

\* df.loc[df['response_time_hours'] < 0, 'response_time_hours'] = np.nan, one row
null_negative(x) == IF notna(x) /\ x[1] < 0 THEN NaN ELSE x

\* .dt.hour
dt_hour(ts) == IF isna(ts) THEN NaN ELSE Some((ts[1] % 86400) \div 3600)

\* .dt.dayofweek, Monday = 0 (1970-01-01 was a Thursday)
dt_dayofweek(ts) == IF isna(ts) THEN NaN ELSE Some((ts[1] \div 86400 + 3) % 7)

\* .dt.to_period('M')
dt_to_period_M(ts) ==
    IF isna(ts) THEN NaN
    ELSE LET c == CivilFromDays(ts[1] \div 86400) IN Some([y |-> c.y, m |-> c.m])

\* Series.isin([5, 6]).astype(int): NaN is not in the list
isin_5_6(dow) == IF notna(dow) /\ dow[1] \in {5, 6} THEN Some(1) ELSE Some(0)

\* the closed date cleared together with a negative duration
DerivedFields_clearing_closed(row) ==
    LET created == to_datetime(row.created_date_raw)
        closed  == to_datetime(row.closed_date_raw)
        hours   == null_negative(total_seconds(closed, created))
    IN  [created_date        |-> created,
         closed_date         |-> IF notna(closed) /\ notna(created) /\ isna(hours)
                                 THEN NaN ELSE closed,
         response_time_hours |-> hours,
         hour_of_day         |-> dt_hour(created),
         day_of_week         |-> dt_dayofweek(created),
         year_month          |-> dt_to_period_M(created)]

\* the columns load_data and run_analysis add to a row of "311_cleaned"
DerivedFields(row) ==
    LET created == to_datetime(row.created_date_raw)
        closed  == to_datetime(row.closed_date_raw)
    IN  [created_date        |-> created,
         closed_date         |-> closed,
         response_time_hours |-> null_negative(total_seconds(closed, created)),
         hour_of_day         |-> dt_hour(created),
         day_of_week         |-> dt_dayofweek(created),
         year_month          |-> dt_to_period_M(created)]

\* the rows with an unparseable created date left out
load_data_dropping(t) ==
    LET all == [i \in 1..Len(t) |-> t[i] @@ DerivedFields(t[i])]
        Keep(r) == notna(r.created_date)
    IN  SelectSeq(all, Keep)

\* generate_dashboard.load_data: SELECT * FROM "311_cleaned" and the derived columns
load_data(t) == [i \in 1..Len(t) |-> t[i] @@ DerivedFields(t[i])]

\* run_analysis steps 1-3: the same columns and is_weekend
feature_engineering(t) ==
    [i \in 1..Len(t) |->
        LET f == DerivedFields(t[i])
        IN  t[i] @@ f @@ [is_weekend |-> isin_5_6(f.day_of_week)]]

----------------------------------------------------------------------------
(* Series and SQL aggregates *)

Min(a, b) == IF a < b THEN a ELSE b

\* Series.head(n) / LIMIT n
head(s, n) == SubSeq(s, 1, Min(n, Len(s)))

\* the rows of a frame and how often each occurs, their order left out
BagOf(frame) ==
    [r \in {frame[i] : i \in 1..Len(frame)} |->
        Cardinality({i \in 1..Len(frame) : frame[i] = r})]

\* DataFrame.sample(n, random_state=42): n rows drawn without replacement, as
\* the bags of rows the draw may give (every row when n is the length, none
\* when n exceeds it: ValueError)
sample(frame, n) ==
    IF n = Len(frame) THEN {BagOf(frame)}
    ELSE {BagOf([i \in 1..n |-> frame[p[i]]]) :
            p \in {q \in [1..n -> 1..Len(frame)] :
                     \A i, j \in 1..n : i # j => q[i] # q[j]}}

Indices(col) == [i \in 1..Len(col) |-> i]

CountOf(col, key) == Cardinality({i \in 1..Len(col) : col[i] = key})

\* the distinct cells of a column in the order of their first occurrence
FirstSeen(col) ==
    LET IsFirst(i) == \A j \in 1..(i - 1) : col[j] # col[i]
        firsts == SelectSeq(Indices(col), IsFirst)
    IN  [k \in 1..Len(firsts) |-> col[firsts[k]]]

\* one entry [key, cnt] per distinct cell, NULL included
GroupCountsWithNull(col) ==
    LET keys == FirstSeen(col)
    IN  [k \in 1..Len(keys) |-> [key |-> keys[k], cnt |-> CountOf(col, keys[k])]]

\* one entry [key, cnt] per distinct non-null cell, in first-seen order
GroupCounts(col) == GroupCountsWithNull(dropna(col))

IndexPermutations(n) ==
    {p \in [1..n -> 1..n] : \A i, j \in 1..n : i # j => p[i] # p[j]}

\* the orders a descending sort on a column may leave the entries in: neither
\* sort_values (kind='quicksort') nor ORDER BY says how equal counts are ordered
SortDescending(s, by) ==
    LET n == Len(s)
        ok == {p \in IndexPermutations(n) :
                 \A i \in 1..(n - 1) : s[p[i]][by] >= s[p[i + 1]][by]}
    IN  {[i \in 1..n |-> s[p[i]]] : p \in ok}

\* Series.value_counts(): NaN dropped, descending by count
value_counts(col) == SortDescending(GroupCounts(col), "cnt")

\* Series.nunique()
nunique(col) == Len(FirstSeen(dropna(col)))

\* NaN counted in the divisor as a zero
mean_fillna(col) ==
    IF Len(col) = 0 THEN NaN ELSE Some(<<SumSeq(dropna(col)), Len(col)>>)

\* Series.mean(): NaN skipped, NaN when nothing is left
mean(col) ==
    LET v == dropna(col)
    IN  IF Len(v) = 0 THEN NaN ELSE Some(<<SumSeq(v), Len(v)>>)

RECURSIVE InsertSorted(_, _)
InsertSorted(x, s) ==
    IF s = <<>> THEN <<x>>
    ELSE IF x <= s[1] THEN <<x>> \o s
    ELSE <<s[1]>> \o InsertSorted(x, Tail(s))

RECURSIVE SortInts(_)
SortInts(s) == IF s = <<>> THEN <<>> ELSE InsertSorted(s[1], SortInts(Tail(s)))

\* Series.median(): NaN skipped; the middle value, or the mean of the two middle ones
median(col) ==
    LET v == dropna(col)
        n == Len(v)
        sorted == SortInts([i \in 1..n |-> v[i][1]])
    IN  IF n = 0 THEN NaN
        ELSE IF n % 2 = 1 THEN Some(<<sorted[(n + 1) \div 2], 1>>)
        ELSE Some(<<sorted[n \div 2] + sorted[n \div 2 + 1], 2>>)

\* DataFrame.duplicated(subset = every column but unique_key).sum()
duplicated_sum_without_key(frame) ==
    LET Rest(r) == [r EXCEPT !.unique_key = NaN]
    IN  Cardinality({i \in 1..Len(frame) :
                       \E j \in 1..(i - 1) : Rest(frame[j]) = Rest(frame[i])})

\* DataFrame.duplicated().sum(): every column, keep='first'
duplicated_sum(frame) ==
    Cardinality({i \in 1..Len(frame) : \E j \in 1..(i - 1) : frame[j] = frame[i]})

RowsWhere(frame, name, key) ==
    LET Is(r) == r[name] = key IN SelectSeq(frame, Is)

\* a NaN key kept as a group of its own (dropna=False)
groupby_borough_keepna(frame) ==
    LET keys == FirstSeen(Column(frame, "borough"))
    IN  [k \in 1..Len(keys) |->
            LET g == RowsWhere(frame, "borough", keys[k])
            IN  [key |-> keys[k],
                 Complaints |-> Len(dropna(Column(g, "unique_key"))),
                 AvgResponse |-> mean(Column(g, "response_time_hours"))]]

\* df.groupby('borough').agg({'unique_key': 'count', 'response_time_hours': 'mean'})
groupby_borough(frame) ==
    LET keys == FirstSeen(dropna(Column(frame, "borough")))
    IN  [k \in 1..Len(keys) |->
            LET g == RowsWhere(frame, "borough", keys[k])
            IN  [key |-> keys[k],
                 Complaints |-> Len(dropna(Column(g, "unique_key"))),
                 AvgResponse |-> mean(Column(g, "response_time_hours"))]]

\* borough_stats.sort_values('Complaints', ascending=False)
borough_stats_of(frame) == SortDescending(groupby_borough(frame), "Complaints")

\* the rows of the borough table: "if borough:" skips the empty name
borough_table(stats) ==
    LET Truthy(e) == e.key # Some("") IN SelectSeq(stats, Truthy)

\* df.groupby(name).size() on an integer key: NaN keys dropped, keys ascending
groupby_size(col) ==
    LET v == dropna(col)
        keys == SortInts(FirstSeen([i \in 1..Len(v) |-> v[i][1]]))
    IN  [k \in 1..Len(keys) |->
            [key |-> Some(keys[k]), cnt |-> CountOf(col, Some(keys[k]))]]

\* SUM(column): NULLs skipped, NULL when no non-NULL value was summed
sql_sum(col) ==
    LET v == dropna(col) IN IF Len(v) = 0 THEN NaN ELSE Some(SumSeq(v))

\* SELECT borough, COUNT(*) ... WHERE borough IS NOT NULL GROUP BY borough ORDER BY cnt DESC
sql_borough_distribution(t) ==
    SortDescending(GroupCounts(Column(t, "borough")), "cnt")

\* SELECT complaint_type, COUNT(*) ... GROUP BY complaint_type ORDER BY cnt DESC
sql_complaint_ranking(t) ==
    SortDescending(GroupCountsWithNull(Column(t, "complaint_type")), "cnt")

----------------------------------------------------------------------------
(* The statistics of the three scripts *)

\* generate_dashboard: value_counts().head(10)
TopComplaintsDashboard == 10

\* generate_report: LIMIT 5
TopComplaintsReport == 5

HtmlNone ==
    [status |-> "none", total_records |-> 0, total_boroughs |-> 0,
     total_complaint_types |-> 0, avg_response_time |-> NaN,
     median_response_time |-> NaN, borough_stats |-> <<>>, borough_rows |-> <<>>,
     top_complaints |-> <<>>, hourly_counts |-> <<>>,
     valid_borough |-> NaN, valid_coordinates |-> NaN, closed_date |-> NaN,
     duplicates |-> 0, geo_df |-> <<>>]

ReportNone ==
    [status |-> "none", total |-> 0, boroughs |-> <<>>, complaints |-> <<>>,
     quality |-> <<NaN, NaN, NaN>>]

SummaryNone == [status |-> "none", cleaned_count |-> 0, stats |-> <<NaN, NaN, NaN>>]

\* f"{x:,}" and 100*x/total of a SUM() result: None has no ',' format, and a
\* zero total cannot divide
FormatQuality(total, quality) ==
    IF \E i \in 1..3 : isna(quality[i]) THEN "TypeError"
    ELSE IF total = 0 THEN "ZeroDivisionError"
    ELSE "ok"

\* generate_html's statistics for the frame d, given the orders the two sorts left
html_stats(d, stats, ranking) ==
    [status                |-> "ok",
     total_records         |-> Len(d),
     total_boroughs        |-> nunique(Column(d, "borough")),
     total_complaint_types |-> nunique(Column(d, "complaint_type")),
     avg_response_time     |-> mean(Column(d, "response_time_hours")),
     median_response_time  |-> median(Column(d, "response_time_hours")),
     borough_stats         |-> stats,
     borough_rows          |-> borough_table(stats),
     top_complaints        |-> head(ranking, TopComplaintsDashboard),
     hourly_counts         |-> groupby_size(Column(d, "hour_of_day")),
     valid_borough         |-> mean(Column(d, "has_valid_borough")),
     valid_coordinates     |-> mean(Column(d, "has_valid_coordinates")),
     closed_date           |-> mean(Column(d, "has_closed_date")),
     duplicates            |-> duplicated_sum(d),
     geo_df                |-> <<>>]

\* create_geospatial_chart: sample(min(30000, len(df)))
GeoSampleSize == 30000

\* the rows that have both coordinates, whatever their flag
geo_rows_unflagged(d) ==
    LET Plotted(r) == notna(r.latitude) /\ notna(r.longitude)
    IN  SelectSeq(d, Plotted)

\* create_geospatial_chart: the rows flagged valid that have both coordinates
geo_rows(d) ==
    LET Plotted(r) ==
            /\ r.has_valid_coordinates = Some(1)
            /\ notna(r.latitude)
            /\ notna(r.longitude)
    IN  SelectSeq(d, Plotted)

\* DataFrame.sample(n) without replacement raises ValueError when n exceeds the
\* number of rows it draws from
geo_sample_ok(d) == Min(GeoSampleSize, Len(d)) <= Len(geo_rows(d))

\* create_geospatial_chart: the rows it may plot
create_geospatial_chart(d) == sample(geo_rows(d), Min(GeoSampleSize, Len(d)))

\* sqlite3.connect('nyc311.db') creates the file when there is none
connect(fs) == fs \cup {DB_PATH}

\* generate_dashboard.main: load_data, the charts, generate_html, dashboard.html.
\* read_sql raises when the database holds no "311_cleaned".
generate_dashboard_main ==
    IF "311_cleaned" \in tables
    THEN \E stats \in borough_stats_of(load_data(table)) :
           \E ranking \in value_counts(Column(load_data(table), "complaint_type")) :
             /\ df' = load_data(table)
             /\ html' \in IF geo_sample_ok(load_data(table))
                           THEN {[html_stats(load_data(table), stats, ranking)
                                     EXCEPT !.geo_df = plotted] :
                                   plotted \in create_geospatial_chart(load_data(table))}
                           ELSE {[HtmlNone EXCEPT !.status = "ValueError"]}
             /\ files' = IF geo_sample_ok(load_data(table))
                         THEN files \cup {"dashboard.html"} ELSE files
    ELSE /\ df' = df
         /\ html' = [HtmlNone EXCEPT !.status = "DatabaseError"]
         /\ files' = connect(files)

\* python generate_dashboard.py
DashboardMain ==
    /\ generate_dashboard_main
    /\ UNCHANGED <<table, adf, report, summary, profile>>
    /\ UNCHANGED <<tables, script, executed, mainVars>>

\* run_analysis: df.sample(min(30000, len(df)), random_state=42)
ProfileSampleSize == 30000

\* generate_profile: SELECT * FROM "311_cleaned" LIMIT 30000
ProfileLimit == 30000

\* run_analysis: profile_columns
profile_columns ==
    {"unique_key", "agency", "complaint_type", "complaint_category", "borough",
     "latitude", "longitude", "status",
     "response_time_hours", "hour_of_day", "day_of_week", "is_weekend"}

\* the columns of "311_cleaned" the scripts read
TableColumns ==
    {"unique_key", "agency", "complaint_type", "complaint_category", "borough",
     "latitude", "longitude", "status", "created_date_raw", "closed_date_raw",
     "has_valid_borough", "has_valid_coordinates", "has_closed_date"}

\* frame[columns], one row
Project(r, columns) == [c \in columns |-> r[c]]

ProfileNone == [by |-> "none", columns |-> {}, rows |-> <<>>]

\* run_analysis, visualization 3: sample(min(50000, len(df)))
AnalysisGeoSampleSize == 50000

\* run_analysis: load, convert dates, engineer features, draw the charts (the
\* script stops at the geospatial sample when it raises), profile a sample
RunAnalysis ==
    LET frame == feature_engineering(table)
        cut   == [i \in 1..Len(frame) |-> Project(frame[i], profile_columns)]
    IN  /\ adf' = frame
        /\ profile' \in
              IF sample(geo_rows(frame), Min(AnalysisGeoSampleSize, Len(frame))) = {}
              THEN {profile}
              ELSE {[by |-> "run_analysis", columns |-> profile_columns,
                     rows |-> rows] :
                      rows \in sample(cut, Min(ProfileSampleSize, Len(frame)))}
        /\ files' = IF sample(geo_rows(frame), Min(AnalysisGeoSampleSize, Len(frame))) = {}
                    THEN files ELSE files \cup {"nyc311_profile.html"}
        /\ UNCHANGED <<table, df, html, report, summary>>
        /\ UNCHANGED <<tables, script, executed, mainVars>>

\* generate_profile: the first rows of the table as they are stored
GenerateProfile ==
    /\ profile' = [by      |-> "generate_profile",
                   columns |-> TableColumns,
                   rows    |-> BagOf(head(table, ProfileLimit))]
    /\ files' = files \cup {"nyc311_profile.html"}
    /\ UNCHANGED <<table, df, html, adf, report, summary>>
    /\ UNCHANGED <<tables, script, executed, mainVars>>

\* generate_report.generate_report: get_stats, then the text of the report,
\* Report.pdf.  The first query raises when the database holds no "311_cleaned".
generate_report ==
    IF "311_cleaned" \in tables
    THEN \E boroughs \in sql_borough_distribution(table) :
           \E ranking \in sql_complaint_ranking(table) :
             LET quality == <<sql_sum(Column(table, "has_valid_borough")),
                              sql_sum(Column(table, "has_valid_coordinates")),
                              sql_sum(Column(table, "has_closed_date"))>>
             IN  /\ report' = [status     |-> FormatQuality(Len(table), quality),
                               total      |-> Len(table),
                               boroughs   |-> boroughs,
                               complaints |-> head(ranking, TopComplaintsReport),
                               quality    |-> quality]
                 /\ files' = IF FormatQuality(Len(table), quality) = "ok"
                             THEN files \cup {"Report.pdf"} ELSE files
    ELSE /\ report' = [ReportNone EXCEPT !.status = "OperationalError"]
         /\ files' = connect(files)

\* python generate_report.py
GenerateReport ==
    /\ generate_report
    /\ UNCHANGED <<table, df, html, adf, summary, profile>>
    /\ UNCHANGED <<tables, script, executed, mainVars>>

\* create_database: the cleaned count and the "Data Quality Summary" of the rows t
quality_summary(t) ==
    LET stats == <<sql_sum(Column(t, "has_valid_borough")),
                   sql_sum(Column(t, "has_valid_coordinates")),
                   sql_sum(Column(t, "has_closed_date"))>>
    IN  [status        |-> FormatQuality(Len(t), stats),
         cleaned_count |-> Len(t),
         stats         |-> stats]

\* setup_database.create_database from line 78 on, over the table as it stands
QualitySummary ==
    /\ summary' = quality_summary(table)
    /\ UNCHANGED <<table, df, html, adf, report, profile>>
    /\ UNCHANGED <<diskVars, mainVars>>

----------------------------------------------------------------------------
(* Inputs: the rows "311_cleaned" may hold *)

MaxRowsDerive == 2
MaxRowsAgg == 3
MaxRowsRank == 4

Text(mo, d, y, h, mi, s, ap) ==
    [mo |-> mo, d |-> d, y |-> y, h |-> h, mi |-> mi, s |-> s, ap |-> ap]

T_10AM     == Text(1, 1, 2020, 10, 0, 0, "AM")     \* "01/01/2020 10:00:00 AM", a Wednesday
T_08AM     == Text(1, 1, 2020, 8, 0, 0, "AM")      \* "01/01/2020 08:00:00 AM"
T_Sat      == Text(12, 28, 2019, 11, 30, 0, "PM")  \* "12/28/2019 11:30:00 PM", a Saturday
T_Midnight == Text(1, 2, 2020, 12, 0, 0, "AM")     \* "01/02/2020 12:00:00 AM"
T_Feb30    == Text(2, 30, 2020, 10, 0, 0, "AM")    \* "02/30/2020 10:00:00 AM": no such day
T_Hour13   == Text(1, 1, 2020, 13, 0, 0, "PM")     \* "01/01/2020 13:00:00 PM": no such %I
T_NoAmPm   == Text(1, 1, 2020, 10, 0, 0, "")       \* "01/01/2020 10:00:00": %p missing

CreatedCells == {NaN, Some(T_10AM), Some(T_08AM), Some(T_Sat), Some(T_Feb30), Some(T_Hour13)}
ClosedCells  == {NaN, Some(T_10AM), Some(T_08AM), Some(T_Midnight), Some(T_NoAmPm)}

Row(key, ctype, borough, created, closed) ==
    [unique_key            |-> key,
     agency                |-> Some("HPD"),
     complaint_type        |-> ctype,
     complaint_category    |-> Some("HOUSING"),
     borough               |-> borough,
     latitude              |-> Some(4070),
     longitude             |-> Some(-7395),
     status                |-> Some("Closed"),
     created_date_raw      |-> created,
     closed_date_raw       |-> closed,
     has_valid_borough     |-> IF isna(borough) THEN Some(0) ELSE Some(1),
     has_valid_coordinates |-> Some(1),
     has_closed_date       |-> IF isna(closed) THEN Some(0) ELSE Some(1)]

RowsDerive ==
    {Row(Some(1), Some("A"), Some("BROOKLYN"), created, closed) :
        created \in CreatedCells, closed \in ClosedCells}

\* created/closed pairs: 14 hours, closed 2 hours before created, no created date
OtherDatePairs ==
    {<<Some(T_10AM), Some(T_Midnight)>>, <<Some(T_10AM), Some(T_08AM)>>,
     <<NaN, Some(T_10AM)>>}

\* a row at latitude 41.5, outside the bounding box and flagged so
RowOutOfBox ==
    [Row(Some(1), Some("A"), Some("BROOKLYN"), Some(T_08AM), Some(T_10AM))
        EXCEPT !.latitude = Some(4150), !.has_valid_coordinates = Some(0)]

\* 2-hour rows in two keys and three boroughs, one of them out of the box, and
\* the other date pairs under key 1
RowsAgg ==
    {Row(key, Some("A"), borough, Some(T_08AM), Some(T_10AM)) :
        key \in {Some(1), Some(2)}, borough \in {Some("BROOKLYN"), NaN}}
    \cup {Row(Some(1), Some("A"), Some("QUEENS"), Some(T_08AM), Some(T_10AM))}
    \cup {RowOutOfBox}
    \cup {Row(Some(1), Some("A"), borough, dates[1], dates[2]) :
            borough \in {Some("BROOKLYN"), NaN}, dates \in OtherDatePairs}

MaxRowsFlag == 2

\* the flag stored beside a value: 1 when the value is present, 0 or NULL
\* (never set) when it is absent
FlagCells(cell) == IF notna(cell) THEN {Some(1)} ELSE {Some(0), NaN}

\* rows whose borough and closed-date flags are 1, 0 or NULL
RowsFlag ==
    UNION {{[Row(Some(1), Some("A"), borough, Some(T_08AM), closed)
               EXCEPT !.has_valid_borough = fb, !.has_closed_date = fc] :
               fb \in FlagCells(borough), fc \in FlagCells(closed)} :
            borough \in {Some("BROOKLYN"), NaN}, closed \in {Some(T_10AM), NaN}}

MaxRowsGeo == 2

\* "NYC boundaries (40.4-40.95 lat, -74.3 to -73.6 lon)", in hundredths of a degree
LatMin == 4040
LatMax == 4095
LonMin == -7430
LonMax == -7360

InBox(lat, lon) ==
    /\ LatMin <= lat[1] /\ lat[1] <= LatMax
    /\ LonMin <= lon[1] /\ lon[1] <= LonMax

\* the cleaning script's has_valid_coordinates: both present and in the box
coordinate_flag(lat, lon) ==
    IF notna(lat) /\ notna(lon) /\ InBox(lat, lon) THEN Some(1) ELSE Some(0)

\* rows as the cleaning leaves them: latitude and longitude absent, inside the
\* box, on its edge or outside it (41.5, -73.0), the flag set accordingly
RowsGeo ==
    {[Row(Some(1), Some("A"), Some("BROOKLYN"), Some(T_08AM), Some(T_10AM))
        EXCEPT !.latitude = lat, !.longitude = lon,
               !.has_valid_coordinates = coordinate_flag(lat, lon)] :
        lat \in {NaN, Some(4070), Some(LatMin), Some(4150)},
        lon \in {NaN, Some(-7395), Some(LonMax), Some(-7300)}}

MaxRowsProfile == 2

\* rows to profile: the date pairs above, a Saturday left open, an unparseable
\* created date
RowsProfile ==
    {Row(Some(1), Some("A"), Some("BROOKLYN"), dates[1], dates[2]) :
        dates \in OtherDatePairs
                  \cup {<<Some(T_Sat), NaN>>, <<Some(T_Feb30), Some(T_10AM)>>}}

RowsRank ==
    {Row(Some(1), ctype, Some("BROOKLYN"), Some(T_08AM), Some(T_10AM)) :
        ctype \in {Some("A"), Some("B"), Some("C"), NaN}}

MaxRowsKey == 2

\* rows with and without an identifier, in two boroughs, the empty borough and
\* no borough
RowsKey ==
    {Row(key, Some("A"), borough, Some(T_08AM), Some(T_10AM)) :
        key \in {Some(1), NaN},
        borough \in {Some("BROOKLYN"), Some("QUEENS"), Some(""), NaN}}

Tables(rows, n) == UNION {[1..k -> rows] : k \in 0..n}

----------------------------------------------------------------------------
(* setup_database.create_database *)

\* a chunk of sql_script.split(';') after strip(): whether it begins with a
\* '--' comment line, and the statement in it ("none" when it holds no statement)
Chunk(leading_comment, statement) ==
    [leading_comment |-> leading_comment, statement |-> statement]

\* DROP TABLE IF EXISTS "311_cleaned" / CREATE TABLE "311_cleaned" AS SELECT ...
\* FROM raw_311 / SELECT ... FROM "311_cleaned"
Statements == {"DROP", "CREATE", "SELECT"}

\* cursor.execute(stmt) on a database holding the tables tbls: whether it
\* returns (no sqlite3.Error) and the tables held afterwards
cursor_execute(statement, tbls) ==
    IF statement = "DROP" THEN [ok |-> TRUE, tables |-> tbls \ {"311_cleaned"}]
    ELSE IF statement = "CREATE"
    THEN IF "311_cleaned" \in tbls
         THEN [ok |-> FALSE, tables |-> tbls]    \* table "311_cleaned" already exists
         ELSE [ok |-> TRUE, tables |-> tbls \cup {"311_cleaned"}]
    ELSE [ok |-> "311_cleaned" \in tbls, tables |-> tbls]    \* no such table

\* line 63: stmt and not stmt.startswith('--')
passes_filter(chunk) ==
    /\ chunk.leading_comment \/ chunk.statement # "none"
    /\ ~chunk.leading_comment

\* the loop stopping at the first sqlite3.Error
RECURSIVE run_statements_aborting(_, _, _)
run_statements_aborting(chunks, i, state) ==
    IF i > Len(chunks) THEN state
    ELSE IF passes_filter(chunks[i])
    THEN LET r == cursor_execute(chunks[i].statement, state.tables)
         IN  IF r.ok
             THEN run_statements_aborting(chunks, i + 1,
                     [log    |-> Append(state.log, [chunk |-> i, ok |-> r.ok]),
                      tables |-> r.tables])
             ELSE [log    |-> Append(state.log, [chunk |-> i, ok |-> r.ok]),
                   tables |-> r.tables]
    ELSE run_statements_aborting(chunks, i + 1, state)

\* lines 61-73: for i, stmt in enumerate(statements), from chunk i on
RECURSIVE run_statements(_, _, _)
run_statements(chunks, i, state) ==
    IF i > Len(chunks) THEN state
    ELSE IF passes_filter(chunks[i])
    THEN LET r == cursor_execute(chunks[i].statement, state.tables)
         IN  run_statements(chunks, i + 1,
                [log    |-> Append(state.log, [chunk |-> i, ok |-> r.ok]),
                 tables |-> r.tables])
    ELSE run_statements(chunks, i + 1, state)

MaxRowsSetup == 1

\* the rows the cleaning script may leave in "311_cleaned"
RowsSetup == {Row(Some(1), Some("A"), Some("BROOKLYN"), Some(T_08AM), Some(T_10AM))}

\* setup_database.create_database: remove and recreate nyc311.db, import the CSV
\* as raw_311, run the chunks of the SQL file, commit, count "311_cleaned",
\* print the quality summary.  summary.status tells where it stopped.
create_database ==
    LET run == run_statements(script, 1, [log |-> <<>>, tables |-> {"raw_311"}])
    IN  /\ files' = connect(files)
        /\ IF CSV_PATH \notin files
           THEN /\ tables' = {}
                /\ table' = <<>>
                /\ executed' = <<>>
                /\ summary' = [SummaryNone EXCEPT !.status = "FileNotFoundError"]
           ELSE IF SQL_FILE \notin files
           THEN /\ tables' = {"raw_311"}
                /\ table' = <<>>
                /\ executed' = <<>>
                /\ summary' = [SummaryNone EXCEPT !.status = "FileNotFoundError"]
           ELSE /\ tables' = run.tables
                /\ executed' = run.log
                /\ IF "311_cleaned" \in run.tables
                   THEN /\ table' \in Tables(RowsSetup, MaxRowsSetup)
                        /\ summary' = quality_summary(table')
                   ELSE /\ table' = <<>>
                        /\ summary' = [SummaryNone EXCEPT !.status = "OperationalError"]

\* python setup_database.py
SetupDatabase ==
    /\ create_database
    /\ UNCHANGED <<df, html, adf, report, profile, script, mainVars>>

----------------------------------------------------------------------------
(* main.py *)

\* --setup, --dashboard, --report
Flags == {"setup", "dashboard", "report"}

\* one call of a run_* function: whether it went on to call its generator and
\* what it returned ("raised" when the generator's exception passed through it)
Call(fn, invoked, returned) == [fn |-> fn, invoked |-> invoked, returned |-> returned]

\* the CSV taken to be there
check_csv_exists_always == TRUE

\* os.path.exists(csv_path)
check_csv_exists == CSV_PATH \in files

\* the database taken to be there
check_database_exists_always == TRUE

\* os.path.exists('nyc311.db')
check_database_exists == DB_PATH \in files

\* every step taken whatever the flags
selected_ignoring_flags(step) ==
    step = "setup" => ~check_database_exists

\* whether the running command takes the step: run_full_pipeline (no flag)
\* sets up only a missing database, main otherwise follows the flags
selected(step) ==
    IF args = {} THEN (step = "setup" => ~check_database_exists)
    ELSE step \in args

\* main: parse_args of a new command
Main ==
    /\ pc = "idle"
    /\ \E a \in SUBSET Flags : args' = a
    /\ steps' = <<>>
    /\ result' = "running"
    /\ pc' = "setup"
    /\ before' = [files |-> files, tables |-> tables, table |-> table]
    /\ UNCHANGED <<dataVars, diskVars>>

\* run_setup, where run_full_pipeline or main calls it: a False return ends the
\* full pipeline, main ignores it; an exception ends the command
RunSetup ==
    /\ pc = "setup"
    /\ IF ~selected("setup")
       THEN /\ pc' = "dashboard"
            /\ UNCHANGED <<table, summary, files, tables, executed, steps, result>>
       ELSE IF ~check_csv_exists
       THEN /\ steps' = Append(steps, Call("run_setup", FALSE, "False"))
            /\ pc' = IF args = {} THEN "exited" ELSE "dashboard"
            /\ result' = IF args = {} THEN "False" ELSE result
            /\ UNCHANGED <<table, summary, files, tables, executed>>
       ELSE /\ create_database
            /\ steps' = Append(steps, Call("run_setup", TRUE,
                            IF summary'.status = "ok" THEN "True" ELSE "raised"))
            /\ pc' = IF summary'.status = "ok" THEN "dashboard" ELSE "exited"
            /\ result' = IF summary'.status = "ok" THEN result ELSE "raised"
    /\ UNCHANGED <<df, html, adf, report, profile, script, args, before>>

\* run_dashboard, where run_full_pipeline or main calls it (its return value is
\* used by neither)
RunDashboard ==
    /\ pc = "dashboard"
    /\ IF ~selected("dashboard")
       THEN /\ pc' = "report"
            /\ UNCHANGED <<df, html, files, steps, result>>
       ELSE IF ~check_database_exists
       THEN /\ steps' = Append(steps, Call("run_dashboard", FALSE, "False"))
            /\ pc' = "report"
            /\ UNCHANGED <<df, html, files, result>>
       ELSE /\ generate_dashboard_main
            /\ steps' = Append(steps, Call("run_dashboard", TRUE,
                            IF html'.status = "ok" THEN "True" ELSE "raised"))
            /\ pc' = IF html'.status = "ok" THEN "report" ELSE "exited"
            /\ result' = IF html'.status = "ok" THEN result ELSE "raised"
    /\ UNCHANGED <<table, adf, report, summary, profile, tables, script, executed, args, before>>

\* run_report, then the end of the command: run_full_pipeline lists the outputs
\* and returns True, main returns None
RunReport ==
    /\ pc = "report"
    /\ pc' = "exited"
    /\ IF ~selected("report")
       THEN /\ result' = "None"
            /\ UNCHANGED <<report, files, steps>>
       ELSE IF ~check_database_exists
       THEN /\ steps' = Append(steps, Call("run_report", FALSE, "False"))
            /\ result' = IF args = {} THEN "True" ELSE "None"
            /\ UNCHANGED <<report, files>>
       ELSE /\ generate_report
            /\ steps' = Append(steps, Call("run_report", TRUE,
                            IF report'.status = "ok" THEN "True" ELSE "raised"))
            /\ result' = IF report'.status # "ok" THEN "raised"
                         ELSE IF args = {} THEN "True" ELSE "None"
    /\ UNCHANGED <<table, df, html, adf, summary, profile, tables, script, executed, args, before>>

\* the process ends
Exit ==
    /\ pc = "exited"
    /\ pc' = "idle"
    /\ UNCHANGED <<dataVars, diskVars, args, steps, result, before>>

Outputs ==
    /\ df = <<>>
    /\ html = HtmlNone
    /\ adf = <<>>
    /\ report = ReportNone
    /\ summary = SummaryNone
    /\ profile = ProfileNone

\* the database set up, "311_cleaned" in it
DatabaseReady ==
    /\ files = {CSV_PATH, SQL_FILE, DB_PATH}
    /\ tables = {"raw_311", "311_cleaned"}
    /\ script = <<>>
    /\ executed = <<>>

\* no main.py command given yet
Idle ==
    /\ pc = "idle"
    /\ args = {}
    /\ steps = <<>>
    /\ result = "none"
    /\ before = [files |-> {}, tables |-> {}, table |-> <<>>]

MaxChunks == 3

\* what a chunk of the SQL file may be: empty, comment only, a statement, a
\* statement below a comment line
Chunks == {Chunk(c, st) : c \in BOOLEAN, st \in {"none"} \cup Statements}

\* the source CSV and the SQL script in place, nothing generated
FreshCheckout ==
    /\ files = {CSV_PATH, SQL_FILE}
    /\ tables = {}
    /\ table = <<>>
    /\ executed = <<>>

InitDerive == table \in Tables(RowsDerive, MaxRowsDerive) /\ Outputs /\ DatabaseReady /\ Idle
InitAgg    == table \in Tables(RowsAgg, MaxRowsAgg) /\ Outputs /\ DatabaseReady /\ Idle
InitRank   == table \in Tables(RowsRank, MaxRowsRank) /\ Outputs /\ DatabaseReady /\ Idle
InitKey    == table \in Tables(RowsKey, MaxRowsKey) /\ Outputs /\ DatabaseReady /\ Idle
InitFlag   == table \in Tables(RowsFlag, MaxRowsFlag) /\ Outputs /\ DatabaseReady /\ Idle
InitProfile == table \in Tables(RowsProfile, MaxRowsProfile) /\ Outputs /\ DatabaseReady /\ Idle
InitGeo    == table \in Tables(RowsGeo, MaxRowsGeo) /\ Outputs /\ DatabaseReady /\ Idle
InitSetup ==
    /\ script \in UNION {[1..k -> Chunks] : k \in 0..MaxChunks}
    /\ FreshCheckout /\ Outputs /\ Idle

\* a script that rebuilds "311_cleaned", and one whose only statement stands
\* below a comment line
MainScripts ==
    {<<Chunk(FALSE, "DROP"), Chunk(FALSE, "CREATE")>>, <<Chunk(TRUE, "CREATE")>>}

\* any of the CSV, the SQL file and nyc311.db present; the database empty,
\* holding raw_311 only, or holding "311_cleaned" too; nothing generated yet
InitMain ==
    /\ files \in SUBSET {CSV_PATH, SQL_FILE, DB_PATH}
    /\ tables \in IF DB_PATH \in files
                   THEN {{}, {"raw_311"}, {"raw_311", "311_cleaned"}}
                   ELSE {{}}
    /\ table \in IF "311_cleaned" \in tables
                  THEN Tables(RowsSetup, MaxRowsSetup) ELSE {<<>>}
    /\ script \in MainScripts
    /\ executed = <<>>
    /\ Outputs /\ Idle

\* before the first command: no database yet, with any of the CSV and the SQL
\* file in place, or a database set up with "311_cleaned" in it
InitRuns ==
    /\ \/ /\ files \in SUBSET {CSV_PATH, SQL_FILE}
          /\ tables = {}
          /\ table = <<>>
       \/ /\ files = {CSV_PATH, SQL_FILE, DB_PATH}
          /\ tables = {"raw_311", "311_cleaned"}
          /\ table \in Tables(RowsSetup, MaxRowsSetup)
    /\ script \in MainScripts
    /\ executed = <<>>
    /\ Outputs /\ Idle

NextDerive == DashboardMain \/ RunAnalysis
NextAgg    == DashboardMain \/ GenerateReport
NextFlag   == DashboardMain \/ GenerateReport
NextProfile == DashboardMain \/ RunAnalysis \/ GenerateProfile
NextGeo    == DashboardMain \/ RunAnalysis
NextSetup  == SetupDatabase
NextMain   == Main \/ RunSetup \/ RunDashboard \/ RunReport \/ Exit
NextKey    == DashboardMain
NextRank   == DashboardMain \/ GenerateReport \/ QualitySummary

\* feature derivation over tables whose rows differ in their two date texts
SpecDerive == InitDerive /\ [][NextDerive]_vars
\* aggregation over tables whose rows differ in key, borough and dates
SpecAgg    == InitAgg /\ [][NextAgg]_vars
\* ranking and database statistics over tables whose rows differ in complaint type
SpecRank   == InitRank /\ [][NextRank]_vars
\* the three scripts that derive or profile, over tables whose rows differ in dates
SpecProfile == InitProfile /\ [][NextProfile]_vars
\* the geospatial selection over tables whose rows differ in their coordinates
SpecGeo    == InitGeo /\ [][NextGeo]_vars
\* create_database over SQL scripts of up to MaxChunks chunks
SpecSetup  == InitSetup /\ [][NextSetup]_vars
\* main.py commands, one after another, from any state of the working directory
SpecMain   == InitMain /\ [][NextMain]_vars
\* the per-borough table over rows with and without an identifier
SpecKey    == InitKey /\ [][NextKey]_vars
\* main.py commands, one after another, from a directory in which nyc311.db, if
\* there, holds "311_cleaned"
SpecRuns   == InitRuns /\ [][NextMain]_vars
\* the quality percentages over tables whose rows differ in their flags
SpecFlag   == InitFlag /\ [][NextFlag]_vars

----------------------------------------------------------------------------
(* Feature derivation: C1, C2, C7, C10 (SpecDerive) *)

BothParsed(r) == notna(r.created_date) /\ notna(r.closed_date)

C1_Row(r) ==
    BothParsed(r) =>
        IF r.closed_date[1] < r.created_date[1]
        THEN isna(r.response_time_hours)
        ELSE r.response_time_hours = Some(r.closed_date[1] - r.created_date[1])

\* C1: in both derivations, a record closed before it was created has a null
\* response_time_hours (not the negative value, not zero), and a record with
\* both timestamps and closed >= created keeps closed - created, zero included.
C1_NegativeDurationNulled ==
    /\ \A i \in 1..Len(df) : C1_Row(df[i])
    /\ \A i \in 1..Len(adf) : C1_Row(adf[i])

\* the spec's scenario (created 10:00 AM, closed 08:00 AM) beside a zero duration
C1_Witness ==
    /\ Len(df) = 2 /\ Len(adf) = 2
    /\ df[1].created_date_raw = Some(T_10AM) /\ df[1].closed_date_raw = Some(T_08AM)
    /\ isna(df[1].response_time_hours) /\ isna(adf[1].response_time_hours)
    /\ df[2].created_date_raw = Some(T_10AM) /\ df[2].closed_date_raw = Some(T_10AM)
    /\ df[2].response_time_hours = Some(0) /\ adf[2].response_time_hours = Some(0)

C2_Row(r) ==
    (isna(r.created_date) \/ isna(r.closed_date)) => isna(r.response_time_hours)

\* C2: in both derivations, a record whose created or closed timestamp is null
\* (the text absent or unparseable) has a null response_time_hours.
C2_NullTimestampNullDuration ==
    /\ \A i \in 1..Len(df) : C2_Row(df[i])
    /\ \A i \in 1..Len(adf) : C2_Row(adf[i])

\* an unparseable created text beside an absent closed text
C2_Witness ==
    /\ Len(df) = 2 /\ Len(adf) = 2
    /\ df[1].created_date_raw = Some(T_Feb30) /\ notna(df[1].closed_date)
    /\ isna(df[1].created_date) /\ isna(df[1].response_time_hours)
    /\ notna(df[2].created_date) /\ isna(df[2].closed_date_raw)
    /\ isna(adf[2].response_time_hours)

\* C7: a record whose created timestamp is null has null hour_of_day,
\* day_of_week, year_month and is_weekend (is_weekend null, not 0).
C7_CalendarFieldsNull ==
    /\ \A i \in 1..Len(df) :
          isna(df[i].created_date) =>
              /\ isna(df[i].hour_of_day)
              /\ isna(df[i].day_of_week)
              /\ isna(df[i].year_month)
    /\ \A i \in 1..Len(adf) :
          isna(adf[i].created_date) =>
              /\ isna(adf[i].hour_of_day)
              /\ isna(adf[i].day_of_week)
              /\ isna(adf[i].year_month)
              /\ isna(adf[i].is_weekend)

\* the fixed format as the claim words it, the year one a timestamp can hold
MatchesFixedFormat(cell) ==
    /\ notna(cell)
    /\ cell[1].y \in 1678..2261
    /\ cell[1].mo \in 1..12
    /\ cell[1].d \in 1..DaysInMonth(cell[1].y, cell[1].mo)
    /\ cell[1].h \in 1..12 /\ cell[1].mi \in 0..59 /\ cell[1].s \in 0..59
    /\ cell[1].ap \in {"AM", "PM"}

\* the parsed instant read back as a calendar date and a time of day is the text
ReadsBack(ts, t) ==
    /\ notna(ts)
    /\ CivilFromDays(ts[1] \div 86400) = [y |-> t.y, m |-> t.mo, d |-> t.d]
    /\ dt_hour(ts) = Some(Hour24(t.h, t.ap))
    /\ ts[1] % 3600 = t.mi * 60 + t.s

C10_Cell(raw, ts) ==
    IF MatchesFixedFormat(raw) THEN ReadsBack(ts, raw[1]) ELSE isna(ts)

\* C10: parsing never fails on a malformed date: in every record of the batch,
\* separately, a text that is absent or does not match the fixed format gives a
\* null timestamp (no sentinel date), and a matching text gives its own instant.
C10_MalformedDateIsNull ==
    /\ Len(df) \in {0, Len(table)}
    /\ Len(adf) \in {0, Len(table)}
    /\ \A i \in 1..Len(df) :
          /\ C10_Cell(table[i].created_date_raw, df[i].created_date)
          /\ C10_Cell(table[i].closed_date_raw, df[i].closed_date)
    /\ \A i \in 1..Len(adf) :
          /\ C10_Cell(table[i].created_date_raw, adf[i].created_date)
          /\ C10_Cell(table[i].closed_date_raw, adf[i].closed_date)

\* a malformed created text first, a well-formed record after it
C10_Witness ==
    /\ Len(df) = 2 /\ Len(adf) = 2
    /\ table[1].created_date_raw = Some(T_Hour13) /\ isna(df[1].created_date)
    /\ table[1].closed_date_raw = Some(T_NoAmPm) /\ isna(adf[1].closed_date)
    /\ table[2].created_date_raw = Some(T_Sat) /\ notna(df[2].created_date)
    /\ df[2].hour_of_day = Some(23) /\ df[2].day_of_week = Some(5)
    /\ notna(adf[2].created_date)

----------------------------------------------------------------------------
(* Aggregation: C3, C5, C8, C9 (SpecAgg) *)

DashboardRan == html.status = "ok"

Last(t) == t[Len(t)]
Front(t) == SubSeq(t, 1, Len(t) - 1)

\* r differs from q in the identifier and in nothing else
DiffersOnlyInKey(r, q) ==
    r.unique_key # q.unique_key /\ [r EXCEPT !.unique_key = q.unique_key] = q

\* C3 as stated: when the last record differs from an earlier one only in its
\* identifier, the duplicate count is that of the collection without it plus 1,
\* and no record is removed.
C3_DuplicateIgnoresKey ==
    (DashboardRan /\ Len(table) >= 2
       /\ \E j \in 1..(Len(table) - 1) : DiffersOnlyInKey(Last(table), table[j]))
    => /\ html.duplicates = duplicated_sum(load_data(Front(table))) + 1
       /\ Len(df) = Len(table)

\* C3, amended: the duplicate count is the number of records beyond the first of
\* each full field tuple, identifier included: a last record equal to an earlier
\* one in every field adds exactly 1, a last record that equals no earlier one
\* (it may differ in its identifier alone) adds nothing, and no record is removed.
C3_DuplicateCountsFullRows ==
    DashboardRan =>
        /\ Len(df) = Len(table)
        /\ html.duplicates
             = Len(table) - Cardinality({table[i] : i \in 1..Len(table)})
        /\ Len(table) >= 1 =>
              html.duplicates
                = duplicated_sum(load_data(Front(table)))
                  + (IF \E j \in 1..(Len(table) - 1) : table[j] = Last(table)
                     THEN 1 ELSE 0)

\* two records that differ only in the identifier, then a copy of the first
C3_Witness ==
    /\ DashboardRan /\ Len(table) = 3
    /\ DiffersOnlyInKey(table[2], table[1])
    /\ table[3] = table[1]
    /\ html.duplicates = 1

Keys(groups) == {groups[k].key : k \in 1..Len(groups)}

NonNullValues(col) == {col[i] : i \in {j \in 1..Len(col) : notna(col[j])}}

\* every reported bucket holds the records of its own key and no others
BoroughBucketsExact ==
    /\ \A k \in 1..Len(html.borough_stats) :
          html.borough_stats[k].Complaints
            = Cardinality({i \in 1..Len(df) :
                             /\ df[i].borough = html.borough_stats[k].key
                             /\ notna(df[i].unique_key)})
    /\ \A k \in 1..Len(html.hourly_counts) :
          html.hourly_counts[k].cnt
            = CountOf(Column(df, "hour_of_day"), html.hourly_counts[k].key)
    /\ \A k \in 1..Len(report.boroughs) :
          report.boroughs[k].cnt
            = CountOf(Column(table, "borough"), report.boroughs[k].key)

BothRan == DashboardRan /\ report.status # "none"

C8_TotalIsInputLength ==
    DashboardRan => html.total_records = Len(table) /\ Len(df) = Len(table)

\* a null created date, a null borough, a negative duration and a duplicate
C8_Witness ==
    /\ DashboardRan /\ html.total_records = 3
    /\ \E i \in 1..3 : isna(df[i].created_date) /\ isna(df[i].borough)
    /\ \E i \in 1..3 :
          BothParsed(df[i]) /\ df[i].closed_date[1] < df[i].created_date[1]
    /\ html.duplicates = 1

\* the records that have a duration: both texts parse and closed >= created
Timed ==
    {i \in 1..Len(table) :
        LET created == to_datetime(table[i].created_date_raw)
            closed  == to_datetime(table[i].closed_date_raw)
        IN  notna(created) /\ notna(closed) /\ closed[1] >= created[1]}

Duration(i) ==
    to_datetime(table[i].closed_date_raw)[1] - to_datetime(table[i].created_date_raw)[1]

RECURSIVE SumDurations(_)
SumDurations(S) ==
    IF S = {} THEN 0
    ELSE LET i == CHOOSE x \in S : TRUE IN Duration(i) + SumDurations(S \ {i})

\* x is the j-th smallest duration
IsKth(x, j) ==
    /\ \E i \in Timed : Duration(i) = x
    /\ Cardinality({i \in Timed : Duration(i) < x}) < j
    /\ Cardinality({i \in Timed : Duration(i) <= x}) >= j

IsMedian(m) ==
    LET n == Cardinality(Timed)
    IN  IF n % 2 = 1
        THEN m[2] = 1 /\ IsKth(m[1], (n + 1) \div 2)
        ELSE /\ m[2] = 2
             /\ \E i, j \in Timed :
                   /\ m[1] = Duration(i) + Duration(j)
                   /\ IsKth(Duration(i), n \div 2)
                   /\ IsKth(Duration(j), n \div 2 + 1)

\* C9: the headline mean is the sum of the non-null durations over their number
\* and the median is their middle value (null and negative-nulled durations
\* enter neither); with no non-null duration both are undefined, and the
\* dashboard is produced all the same.
C9_MeanMedianOverNonNull ==
    DashboardRan =>
        IF Timed = {}
        THEN isna(html.avg_response_time) /\ isna(html.median_response_time)
        ELSE /\ html.avg_response_time
                  = Some(<<SumDurations(Timed), Cardinality(Timed)>>)
             /\ notna(html.median_response_time)
             /\ IsMedian(html.median_response_time[1])

\* durations of 2 and 14 hours beside a negative-nulled one
C9_Witness ==
    /\ DashboardRan /\ Len(table) = 3
    /\ Cardinality(Timed) = 2
    /\ html.avg_response_time = Some(<<16 * 3600, 2>>)
    /\ html.median_response_time = Some(<<16 * 3600, 2>>)
    /\ \E i \in 1..3 :
          BothParsed(df[i]) /\ df[i].closed_date[1] < df[i].created_date[1]

----------------------------------------------------------------------------
(* Empty input and ranking: C4, C6 (SpecRank) *)

\* C4: with zero cleaned records every summary ends without an error: the
\* dashboard statistics (zero counts, undefined ratios), the report's
\* statistics and the setup's quality summary.
C4_EmptyInputNeverFails ==
    table = <<>> =>
        /\ html.status \in {"none", "ok"}
        /\ report.status \in {"none", "ok"}
        /\ summary.status \in {"none", "ok"}
        /\ DashboardRan =>
              /\ html.total_records = 0 /\ html.duplicates = 0
              /\ isna(html.avg_response_time) /\ isna(html.median_response_time)
              /\ isna(html.valid_borough)

\* where an entry of the ranking stands in the order of first occurrence
Position(groups, key) == CHOOSE k \in 1..Len(groups) : groups[k].key = key

\* descending by count, equal counts in the order of first occurrence
StableRanking(groups) ==
    CHOOSE r \in SortDescending(groups, "cnt") :
        \A i, j \in 1..Len(r) :
            (i < j /\ r[i].cnt = r[j].cnt)
                => Position(groups, r[i].key) < Position(groups, r[j].key)

\* C6: in the dashboard and in the report (there, when every record has a
\* complaint type), the listed complaint types are the N most frequent in
\* descending order of count, equal counts in the order in which the types
\* first occur in the data.
C6_TopNStable ==
    /\ DashboardRan =>
          html.top_complaints
            = head(StableRanking(GroupCounts(Column(df, "complaint_type"))),
                   TopComplaintsDashboard)
    /\ (report.status # "none"
          /\ \A i \in 1..Len(table) : notna(table[i].complaint_type)) =>
          report.complaints
            = head(StableRanking(GroupCountsWithNull(Column(table, "complaint_type"))),
                   TopComplaintsReport)

\* the row was closed before it was created, going by its two date texts
ClosedBeforeCreated(row) ==
    LET created == to_datetime(row.created_date_raw)
        closed  == to_datetime(row.closed_date_raw)
    IN  notna(created) /\ notna(closed) /\ closed[1] < created[1]

\* the derived row keeps every column of the table's row, flag included, and
\* both parsed dates; the duration is the one column left null
C11_Row(r, row) ==
    ClosedBeforeCreated(row) =>
        /\ \A f \in DOMAIN row : r[f] = row[f]
        /\ r.has_closed_date = Some(1)
        /\ r.created_date = to_datetime(row.created_date_raw)
        /\ r.closed_date = to_datetime(row.closed_date_raw)
        /\ notna(r.created_date) /\ notna(r.closed_date)
        /\ r.hour_of_day = dt_hour(r.created_date)
        /\ r.day_of_week = dt_dayofweek(r.created_date)
        /\ r.year_month = dt_to_period_M(r.created_date)
        /\ isna(r.response_time_hours)

\* C11: in both derivations, nulling the negative duration of a record closed
\* before it was created changes nothing else: has_closed_date stays 1, the
\* closed and created timestamps keep their parsed values, and every column
\* read from the table and every other derived column is as it would be.
C11_NegativeDurationFrame ==
    /\ \A i \in 1..Len(df) : C11_Row(df[i], table[i])
    /\ \A i \in 1..Len(adf) : C11_Row(adf[i], table[i])

\* created 10:00 AM, closed 08:00 AM the same day: flag 1, closed date kept
C11_Witness ==
    /\ Len(df) >= 1 /\ Len(adf) >= 1
    /\ ClosedBeforeCreated(table[1])
    /\ df[1].has_closed_date = Some(1) /\ adf[1].has_closed_date = Some(1)
    /\ df[1].closed_date = to_datetime(Some(T_08AM))
    /\ adf[1].closed_date = to_datetime(Some(T_08AM))
    /\ df[1].created_date = to_datetime(Some(T_10AM))
    /\ isna(df[1].response_time_hours) /\ isna(adf[1].response_time_hours)

----------------------------------------------------------------------------
(* Quality percentages of the report and of the dashboard: C12 (SpecFlag) *)

\* 100 * quality[i] / stats['total'] and df[flag].mean() * 100 are the same
\* number: sum / total = num / den
SameProportion(sum, total, fraction) ==
    /\ notna(sum) /\ notna(fraction)
    /\ sum[1] * fraction[1][2] = fraction[1][1] * total

\* C12: for every non-empty collection, null flag values included, each of the
\* three quality percentages of the report (SUM(flag) over COUNT(*)) is
\* computed and equals the dashboard's (mean of the flag column).
C12_PushedDownMatchesInMemory ==
    (BothRan /\ Len(table) > 0) =>
        /\ report.status = "ok"
        /\ SameProportion(report.quality[1], report.total, html.valid_borough)
        /\ SameProportion(report.quality[2], report.total, html.valid_coordinates)
        /\ SameProportion(report.quality[3], report.total, html.closed_date)

----------------------------------------------------------------------------
(* One derivation for every script: C13 (SpecProfile) *)

\* the columns the scripts derive from the two date texts
DerivedColumns ==
    {"created_date", "closed_date", "response_time_hours", "hour_of_day",
     "day_of_week", "year_month"}

\* C13: the dashboard's frame and run_analysis's frame agree, record by
\* record, on the parsed timestamps, response_time_hours, hour_of_day,
\* day_of_week and year_month, and the frame behind nyc311_profile.html
\* holds the derived columns response_time_hours, hour_of_day and day_of_week
\* whichever script wrote it.
C13_SameDerivationEverywhere ==
    /\ (Len(df) = Len(table) /\ Len(adf) = Len(table)) =>
          \A i \in 1..Len(table) :
              \A c \in DerivedColumns : df[i][c] = adf[i][c]
    /\ profile.by # "none" =>
          (DerivedColumns \cap profile_columns) \subseteq profile.columns

----------------------------------------------------------------------------
(* Coordinates and the geospatial plot: C14 (SpecGeo) *)

CoordinatesValid(r) ==
    notna(r.latitude) /\ notna(r.longitude) /\ InBox(r.latitude, r.longitude)

----------------------------------------------------------------------------
(* The SQL cleaning step of create_database: C19, C20 (SpecSetup) *)

\* create_database got as far as the loop over the chunks and the commit
SqlStepRan == summary.status \notin {"none", "FileNotFoundError"}

\* the chunks line 63 lets through, in file order
Attempted == SelectSeq(Indices(script), LAMBDA i : passes_filter(script[i]))

\* the tables after the first n executions, counting the successful ones only
RECURSIVE Replay(_)
Replay(n) ==
    IF n = 0 THEN {"raw_311"}
    ELSE IF executed[n].ok
         THEN cursor_execute(script[executed[n].chunk].statement, Replay(n - 1)).tables
         ELSE Replay(n - 1)

\* C19: a statement that raises sqlite3.Error does not end the SQL step: the
\* chunks passed to cursor.execute are all those the filter lets through, in
\* file order, failed ones included, and the committed tables are those the
\* successful statements leave.
C19_ErrorsSwallowed ==
    SqlStepRan =>
        /\ Len(executed) = Len(Attempted)
        /\ \A n \in 1..Len(executed) :
              /\ executed[n].chunk = Attempted[n]
              /\ executed[n].ok
                    = cursor_execute(script[executed[n].chunk].statement,
                                     Replay(n - 1)).ok
        /\ tables = Replay(Len(executed))

\* a SELECT before the table exists fails, the CREATE after it is run and
\* committed, a second CREATE fails, and the summary is printed
C19_Witness ==
    /\ script = <<Chunk(FALSE, "SELECT"), Chunk(FALSE, "CREATE"), Chunk(FALSE, "CREATE")>>
    /\ executed = <<[chunk |-> 1, ok |-> FALSE], [chunk |-> 2, ok |-> TRUE],
                    [chunk |-> 3, ok |-> FALSE]>>
    /\ "311_cleaned" \in tables
    /\ summary.status = "ok"

\* the chunks that hold a statement, in file order
HoldStatement == SelectSeq(Indices(script), LAMBDA i : script[i].statement # "none")

\* C20: every chunk holding a statement is passed to cursor.execute exactly
\* once, in file order, a statement below a '--' comment line included.
C20_EveryStatementExecuted ==
    SqlStepRan => [n \in 1..Len(executed) |-> executed[n].chunk] = HoldStatement

----------------------------------------------------------------------------
(* main.py: C15, C16, C17, C18 (SpecMain) *)

\* the functions the command has called so far, in order
Called == [n \in 1..Len(steps) |-> steps[n].fn]

\* C15: a full pipeline that starts with only the CSV and the SQL file in
\* place and whose three steps all succeed ends with nyc311.db,
\* nyc311_profile.html and Report.pdf in place.
C15_GeneratedOutputsExist ==
    (/\ args = {} /\ result = "True"
     /\ before.files = {CSV_PATH, SQL_FILE}
     /\ Len(steps) = 3
     /\ \A n \in 1..3 : steps[n].returned = "True") =>
        {DB_PATH, "nyc311_profile.html", "Report.pdf"} \subseteq files

\* the run_* functions main calls for the flags a, in the order of its code
Dispatched(a) ==
    SelectSeq(<<"run_setup", "run_dashboard", "run_report">>,
              LAMBDA fn : \/ fn = "run_setup" /\ "setup" \in a
                          \/ fn = "run_dashboard" /\ "dashboard" \in a
                          \/ fn = "run_report" /\ "report" \in a)

\* the files a run_* function may leave behind
Produces(fn) ==
    IF fn = "run_setup" THEN {DB_PATH}
    ELSE IF fn = "run_dashboard" THEN {"dashboard.html"}
    ELSE {"Report.pdf"}

\* C16: a command with flags calls the run_* functions of its flags, in the
\* order setup, dashboard, report, and no other (all of them once it has ended
\* without an exception), and creates no file but theirs; a command without
\* flags runs the full pipeline: setup when the database is missing, then
\* dashboard and report, or setup alone when setup returns False.
C16_Dispatch ==
    result # "none" =>
        /\ args # {} =>
              /\ Len(Called) <= Len(Dispatched(args))
              /\ Called = SubSeq(Dispatched(args), 1, Len(Called))
              /\ result = "None" => Called = Dispatched(args)
              /\ (files \ before.files)
                    \subseteq UNION {Produces(Called[n]) : n \in 1..Len(Called)}
        /\ (args = {} /\ result = "True") =>
              Called \in {<<"run_dashboard", "run_report">>,
                          <<"run_setup", "run_dashboard", "run_report">>}
        /\ (args = {} /\ result = "False") => Called = <<"run_setup">>

\* --setup --report without --dashboard: setup, then the report, no dashboard
C16_Witness ==
    /\ args = {"setup", "report"} /\ result = "None"
    /\ Called = <<"run_setup", "run_report">>
    /\ steps[1].invoked /\ steps[2].invoked
    /\ "Report.pdf" \in files /\ "dashboard.html" \notin files

\* what the step just logged must look like, given the state it was taken in
GuardedByDatabase(call, status) ==
    IF DB_PATH \in files
    THEN /\ call.invoked
         /\ call.returned = IF status = "ok" THEN "True" ELSE "raised"
    ELSE /\ ~call.invoked
         /\ call.returned = "False"
         /\ files' = files
         /\ dataVars' = dataVars
         /\ tables' = tables

C18_SetupOnlyWhenMissing ==
    (args = {} /\ result # "none" /\ pc # "setup") =>
        /\ ("run_setup" \in {Called[n] : n \in 1..Len(Called)})
              <=> DB_PATH \notin before.files
        /\ DB_PATH \in before.files =>
              /\ DB_PATH \in files
              /\ tables = before.tables /\ table = before.table
        /\ (DB_PATH \notin before.files /\ CSV_PATH \notin before.files) =>
              /\ result = "False"
              /\ steps = <<Call("run_setup", FALSE, "False")>>
              /\ files = before.files /\ tables = {}

\* a full pipeline in a directory holding only the SQL file: False, no database
C18_Witness ==
    /\ args = {} /\ result = "False" /\ pc = "idle"
    /\ before.files = {SQL_FILE} /\ files = {SQL_FILE}
    /\ steps = <<Call("run_setup", FALSE, "False")>>
    /\ html.status = "none" /\ report.status = "none"

----------------------------------------------------------------------------
(* The database after any sequence of commands: C21 (SpecRuns) *)

\* C21: after any sequence of main.py commands, a nyc311.db that exists holds
\* "311_cleaned", and a full pipeline that skipped setup because the database
\* was there has loaded the cleaned data in its dashboard step.
C21_DatabaseHoldsCleanedTable ==
    /\ DB_PATH \in files => "311_cleaned" \in tables
    /\ (args = {} /\ DB_PATH \in before.files /\ pc \in {"report", "exited"}) =>
          html.status # "DatabaseError"

----------------------------------------------------------------------------
(* The per-borough table and the identifier: C22 (SpecKey) *)

\* C22: in the dashboard's per-borough table the complaint count of each borough
\* is the number of records of that borough, and the counts of the listed
\* boroughs add up to the number of records whose borough is neither null nor
\* empty, also when records have a null unique_key.
C22_BoroughCountsAreRecords ==
    DashboardRan =>
        /\ \A k \in 1..Len(html.borough_rows) :
              html.borough_rows[k].Complaints
                = CountOf(Column(df, "borough"), html.borough_rows[k].key)
        /\ SumSeq([k \in 1..Len(html.borough_rows) |-> Some(html.borough_rows[k].Complaints)])
              = Cardinality({i \in 1..Len(df) :
                               notna(df[i].borough) /\ df[i].borough # Some("")})

----------------------------------------------------------------------------
(* The report's top complaint types against the dashboard's: C23 (SpecRank) *)

\* C23: over the same cleaned data, the top-5 complaint types of the PDF report
\* are the first five entries of the dashboard's top-10 complaint types, with
\* the same types and the same counts, also when records have a null
\* complaint type.
C23_ReportTopIsDashboardTop ==
    (DashboardRan /\ report.status = "ok") =>
        report.complaints = head(html.top_complaints, TopComplaintsReport)

====
